---- MODULE Spec2Model ----
(***************************************************************************)
(* CBPeripheralManager (CoreBluetooth, peripheral role): the session state *)
(* machine behind the declarations of CBPeripheralManager.h.  The header   *)
(* declares the state (the private instance variables), the operations and *)
(* the delegate callbacks, and documents their contracts; the bodies of    *)
(* the operations are not part of the repository and follow the written    *)
(* design of the peripheral session.                                       *)
(***************************************************************************)
EXTENDS Integers, Sequences, FiniteSets

\* ---------------------------------------------------------------- bounds
NumCentrals == 2
NumChars == 1
NumServices == 2
MaxSignals == 2
\* The fixed capacity of the underlying transmit queue (its value is not
\* part of the interface).
QueueCapacity == 1
NumPayloads == 2
MaxRequests == 2
MaxBatch == 2
\* The longest value a characteristic takes.
MaxValueLen == 1
\* maximumUpdateValueLength: the longest value one notification carries.
MaxUpdateLen == 1
MaxEvents == 2

\* ------------------------------------------------ CBPeripheralManagerState
CBPeripheralManagerStateUnknown == 0
CBPeripheralManagerStateResetting == 1
CBPeripheralManagerStateUnsupported == 2
CBPeripheralManagerStateUnauthorized == 3
CBPeripheralManagerStatePoweredOff == 4
CBPeripheralManagerStatePoweredOn == 5

PowerStates ==
    { CBPeripheralManagerStateUnknown, CBPeripheralManagerStateResetting,
      CBPeripheralManagerStateUnsupported, CBPeripheralManagerStateUnauthorized,
      CBPeripheralManagerStatePoweredOff, CBPeripheralManagerStatePoweredOn }

\* ------------------------------------------------------------ the universe
Centrals == 1..NumCentrals
Chars == 1..NumChars
ServiceIds == 1..NumServices
Payloads == 1..NumPayloads

\* A CBMutableService as addService: receives it: its identifier and the
\* identifiers of its included services (a service does not include itself).
ServiceValues ==
    UNION { { [id |-> i, includes |-> inc] : inc \in SUBSET (ServiceIds \ {i}) }
            : i \in ServiceIds }

\* The centrals argument of updateValue: nil, or a list of centrals.
Nil == [nil |-> TRUE, list |-> {}]
CentralLists == {Nil} \cup { [nil |-> FALSE, list |-> S] : S \in SUBSET Centrals }

NoError == "None"
NotReadyError == "NotReadyError"
DependencyError == "DependencyError"
ProtocolViolationError == "ProtocolViolationError"
HardwareError == "HardwareError"

\* No startAdvertising: request is outstanding.
NoAdv == << >>

\* Nothing is advertised.
NoPayload == << >>

\* A value of n bytes: the bytes 1, 2, ..., n.
Bytes(n) == [i \in 1..n |-> i]

\* The values updateValue is called with: up to one byte longer than a
\* notification carries.
UpdateValues == { Bytes(n) : n \in 0..(MaxUpdateLen + 1) }

\* The values a central proposes in a write request: up to one byte longer
\* than a characteristic takes.
WriteValues == { Bytes(n) : n \in 1..(MaxValueLen + 1) }

\* One write of a CBATTRequest: the characteristic and the proposed value.
Writes == [char : Chars, value : WriteValues]

\* The requests of one didReceiveWriteRequests: "a list of one or more
\* CBATTRequest objects".
RECURSIVE SeqsUpTo(_, _)
SeqsUpTo(S, n) ==
    IF n = 0 THEN { << >> }
    ELSE LET shorter == SeqsUpTo(S, n - 1)
         IN  shorter \cup { Append(q, x) : q \in { p \in shorter : Len(p) = n - 1 },
                                           x \in S }

Batches == SeqsUpTo(Writes, MaxBatch) \ { << >> }

\* The result respondToRequest:withResult: is given (a CBATTError).
CBATTErrorSuccess == "Success"
CBATTErrorInvalidAttributeValueLength == "InvalidAttributeValueLength"
CBATTErrorUnlikelyError == "UnlikelyError"

VARIABLES
    state,            \* _state
    advertising,      \* _advertising
    pendingAdv,       \* the startAdvertising: request whose result is outstanding
    advData,          \* the advertisementData being advertised
    services,         \* _services: the published services
    centrals,         \* _centrals: central -> the characteristics it subscribed to
    queue,            \* the underlying transmit queue of notifications
    readySignals,     \* notify-ready signals of the transport not yet handled
    waitingForReady,  \* _waitingForReady
    ret,              \* the last operation or callback, with what it returned
    failedSince,      \* history: an updateValue returned NO and no
                      \* readyToUpdate callback has been made since
    freedSince,       \* history: a drain freed space since that NO
    hist,             \* history: the services addService: was called with
                      \* and removeService: was not, since the registry was
                      \* last cleared (kept while inOrder and addsOn hold)
    inOrder,          \* history: each of those calls respected the include order
    addsOn,           \* history: each of those addService: calls was made
                      \* in PoweredOn
    everOn,           \* history: the state has been PoweredOn
    haltedSince,      \* history: with the result of a startAdvertising:
                      \* outstanding, stopAdvertising was called or PoweredOn
                      \* was left, and startAdvertising: has not been called
                      \* in PoweredOn since
    requests,         \* the read requests and write batches delivered, in
                      \* the order of delivery, with the responses sent
    values,           \* characteristic -> its current value
    dispatched,       \* the events given to the dispatch queue, not yet run
    executing         \* the callbacks and method calls being executed

vars == << state, advertising, pendingAdv, advData, services, centrals, queue,
           readySignals, waitingForReady, ret, failedSince, freedSince,
           hist, inOrder, addsOn, everOn, haltedSince, requests, values,
           dispatched, executing >>

flowVars == << queue, readySignals, waitingForReady, failedSince, freedSince >>
registryVars == << services, hist, inOrder, addsOn >>
advVars == << advertising, pendingAdv, advData, haltedSince >>
requestVars == << requests, values >>
contextVars == << dispatched, executing >>

Init ==
    /\ state = CBPeripheralManagerStateUnknown
    /\ advertising = FALSE
    /\ pendingAdv = NoAdv
    /\ advData = NoPayload
    /\ services = {}
    /\ centrals = [c \in Centrals |-> {}]
    /\ queue = << >>
    /\ readySignals = 0
    /\ waitingForReady = FALSE
    /\ ret = [op |-> "init"]
    /\ failedSince = FALSE
    /\ freedSince = FALSE
    /\ hist = {}
    /\ inOrder = TRUE
    /\ addsOn = TRUE
    /\ everOn = FALSE
    /\ haltedSince = FALSE
    /\ requests = << >>
    /\ values = [ch \in Chars |-> << >>]
    /\ dispatched = << >>
    /\ executing = << >>

\* ------------------------------------------------------------- helpers
PublishedIds == { s.id : s \in services }

\* The service a characteristic is part of: the characteristics of a
\* service are set when it is created and are published with it.
ServiceOf(ch) == ((ch - 1) % NumServices) + 1

\* The characteristics of the published services.
PublishedChars == { ch \in Chars : ServiceOf(ch) \in PublishedIds }

\* The centrals subscribed to characteristic ch.
Subscribers(ch) == { c \in Centrals : ch \in centrals[c] }

SetToSeq(S) ==
    LET RECURSIVE Build(_)
        Build(T) == IF T = {} THEN << >>
                    ELSE LET x == CHOOSE y \in T : \A z \in T : y <= z
                         IN  << x >> \o Build(T \ {x})
    IN  Build(S)

\* ------------------------------------------------- notification flow control
\* A faulty variant: every central of the list is a target.
TargetsUnfiltered(ch, cs) == IF cs.nil THEN Subscribers(ch) ELSE cs.list

\* updateValue:forCharacteristic:onSubscribedCentrals: "centrals which have
\* not subscribed to characteristic will be ignored.  If nil, all centrals
\* that are subscribed to characteristic will be updated."
Targets(ch, cs) ==
    IF cs.nil THEN Subscribers(ch) ELSE cs.list \cap Subscribers(ch)

\* A faulty variant: the last bytes of a long value are kept.
TruncatedToTail(v) ==
    IF Len(v) > MaxUpdateLen THEN SubSeq(v, Len(v) - MaxUpdateLen + 1, Len(v)) ELSE v

\* "If value exceeds maximumUpdateValueLength, it will be truncated to fit."
Truncated(v) == IF Len(v) > MaxUpdateLen THEN SubSeq(v, 1, MaxUpdateLen) ELSE v

\* One notification per targeted central, in the order of the centrals,
\* carrying the value v.
Notifications(v, ch, T) ==
    LET order == SetToSeq(T)
    IN  [i \in 1..Len(order) |-> [central |-> order[i], char |-> ch, value |-> v]]

\* A faulty variant: enqueues as many notifications as still fit.
UpdateResultPartial(q, items) ==
    LET room == QueueCapacity - Len(q)
    IN  IF Len(items) > room
        THEN [queue |-> q \o SubSeq(items, 1, room), ok |-> FALSE]
        ELSE [queue |-> q \o items, ok |-> TRUE]

\* All or nothing: the notifications are enqueued when all of them fit in
\* the remaining capacity, and none of them otherwise.
UpdateResult(q, items) ==
    IF Len(items) > QueueCapacity - Len(q)
    THEN [queue |-> q, ok |-> FALSE]
    ELSE [queue |-> q \o items, ok |-> TRUE]

\* A faulty variant: the notifications are measured against the capacity of
\* the queue, whatever it holds already.
UpdateValueOfEmptyQueue(v, ch, cs) ==
    LET T == Targets(ch, cs)
        ok == Cardinality(T) <= QueueCapacity
    IN  /\ queue' = IF ok THEN queue \o Notifications(Truncated(v), ch, T) ELSE queue
        /\ waitingForReady' = (waitingForReady \/ ~ok)
        /\ ret' = [op |-> "updateValue", value |-> v, char |-> ch, centrals |-> cs,
                   k |-> Cardinality(T), ok |-> ok]
        /\ failedSince' = (failedSince \/ ~ok)
        /\ UNCHANGED << contextVars, requestVars, state, everOn, advVars, registryVars,
                        centrals, readySignals, freedSince >>

\* - (BOOL)updateValue:forCharacteristic:onSubscribedCentrals:
UpdateValue(v, ch, cs) ==
    LET T == Targets(ch, cs)
        r == UpdateResult(queue, Notifications(Truncated(v), ch, T))
    IN  /\ queue' = r.queue
        /\ waitingForReady' = (waitingForReady \/ ~r.ok)
        /\ ret' = [op |-> "updateValue", value |-> v, char |-> ch, centrals |-> cs,
                   k |-> Cardinality(T), ok |-> r.ok]
        /\ failedSince' = (failedSince \/ ~r.ok)
        /\ UNCHANGED << contextVars, requestVars, state, everOn, advVars, registryVars, centrals, readySignals,
                        freedSince >>

\* The transport signals that it is ready again once per drain cycle that
\* freed space, however many slots the cycle freed.
DrainSignals(n) == IF n >= 1 THEN 1 ELSE 0

\* The transport sends the first n queued notifications (a drain cycle).
Drain(n) ==
    /\ n \in 0..Len(queue)
    /\ readySignals + DrainSignals(n) <= MaxSignals
    /\ queue' = SubSeq(queue, n + 1, Len(queue))
    /\ readySignals' = readySignals + DrainSignals(n)
    /\ freedSince' = (freedSince \/ (failedSince /\ n >= 1))
    /\ ret' = [op |-> "drain", n |-> n]
    /\ UNCHANGED << contextVars, requestVars, state, everOn, advVars, registryVars, centrals, waitingForReady,
                    failedSince >>

\* A faulty variant: the callback is made for every ready signal.
ReadyToUpdateFiresAlways(waiting) == TRUE

\* A faulty variant: the callback is never made.
ReadyToUpdateFiresNever(waiting) == FALSE

\* peripheralManagerIsReadyToUpdateSubscribers: "is invoked after a failed
\* call to updateValue:..., when peripheral is again ready".
ReadyToUpdateFires(waiting) == waiting

\* The manager handles one ready signal of the transport.
HandleReady ==
    /\ readySignals > 0
    /\ readySignals' = readySignals - 1
    /\ LET fired == ReadyToUpdateFires(waitingForReady)
       IN  /\ waitingForReady' = (waitingForReady /\ ~fired)
           /\ ret' = [op |-> "ready", fired |-> fired]
           /\ failedSince' = (failedSince /\ ~fired)
           /\ freedSince' = (freedSince /\ ~fired)
    /\ UNCHANGED << contextVars, requestVars, state, everOn, advVars, registryVars, centrals, queue >>

\* ------------------------------------------------------ subscription tracking
\* peripheralManager:central:didSubscribeToCharacteristic: (centrals are
\* connected only while the state is PoweredOn).
DidSubscribe(c, ch) ==
    /\ state = CBPeripheralManagerStatePoweredOn
    /\ centrals' = [centrals EXCEPT ![c] = @ \cup {ch}]
    /\ ret' = [op |-> "didSubscribe"]
    /\ UNCHANGED << contextVars, requestVars, state, everOn, advVars, registryVars, flowVars >>

\* peripheralManager:central:didUnsubscribeFromCharacteristic:
DidUnsubscribe(c, ch) ==
    /\ ch \in centrals[c]
    /\ centrals' = [centrals EXCEPT ![c] = @ \ {ch}]
    /\ ret' = [op |-> "didUnsubscribe"]
    /\ UNCHANGED << contextVars, requestVars, state, everOn, advVars, registryVars, flowVars >>

\* ------------------------------------------------------------ power state
\* A faulty variant: advertising and centrals survive PoweredOff.
PausesAdvertisingBelowOff(s) == s < CBPeripheralManagerStatePoweredOff

\* "A state below PoweredOn implies that advertisement has paused and any
\* connected centrals have been disconnected."
PausesAdvertising(s) == s < CBPeripheralManagerStatePoweredOn

\* A faulty variant: the database is cleared only by Unsupported and
\* Unauthorized.
ClearsDatabaseDeepOnly(s) ==
    s \in {CBPeripheralManagerStateUnsupported, CBPeripheralManagerStateUnauthorized}

\* A faulty variant: the database is cleared by every state below PoweredOn.
ClearsDatabaseBelowOn(s) == s < CBPeripheralManagerStatePoweredOn

\* "If the state moves below PoweredOff, advertisement is stopped ... and
\* the local database is cleared and all services must be re-added."
ClearsDatabase(s) == s < CBPeripheralManagerStatePoweredOff

\* A faulty variant: the delegate hears of the changes to and from the
\* powered states only.
StateEventsWhenPowered(old, new) ==
    IF old >= CBPeripheralManagerStatePoweredOff \/ new >= CBPeripheralManagerStatePoweredOff
    THEN << [event |-> "didUpdateState", state |-> new] >>
    ELSE << >>

\* peripheralManagerDidUpdateState: "Invoked whenever the peripheral
\* manager's state has been updated."
StateEvents(old, new) == << [event |-> "didUpdateState", state |-> new] >>

\* The power layer moves the state to s; peripheralManagerDidUpdateState:.
PowerChange(s) ==
    /\ s \in PowerStates
    /\ s # state
    /\ state' = s
    /\ advertising' = (advertising /\ ~PausesAdvertising(s))
    /\ advData' = IF PausesAdvertising(s) THEN NoPayload ELSE advData
    /\ centrals' = IF PausesAdvertising(s) THEN [c \in Centrals |-> {}] ELSE centrals
    /\ services' = IF ClearsDatabase(s) THEN {} ELSE services
    /\ hist' = IF ClearsDatabase(s) THEN {} ELSE hist
    /\ inOrder' = (ClearsDatabase(s) \/ inOrder)
    /\ addsOn' = (ClearsDatabase(s) \/ addsOn)
    /\ everOn' = (everOn \/ s = CBPeripheralManagerStatePoweredOn)
    /\ haltedSince' = ( \/ haltedSince
                        \/ (state = CBPeripheralManagerStatePoweredOn /\ pendingAdv # NoAdv) )
    /\ ret' = [op |-> "didUpdateState", wasAdvertising |-> advertising,
               hadCentrals |-> (\E c \in Centrals : centrals[c] # {}),
               hadServices |-> (services # {}),
               events |-> StateEvents(state, s)]
    /\ UNCHANGED << contextVars, requestVars, pendingAdv, flowVars >>

\* ------------------------------------------------------- service registry
\* A faulty variant: commands are taken in PoweredOff as well.
CommandsAllowedFromPoweredOff(st) == st >= CBPeripheralManagerStatePoweredOff

\* "Commands should only be issued when the state is PoweredOn."
CommandsAllowed(st) == st = CBPeripheralManagerStatePoweredOn

\* A faulty variant: the included services are not looked at.
IncludesPublishedUnchecked(svcs, s) == TRUE

\* addService: "If the service contains included services, they must be
\* published first."
IncludesPublished(svcs, s) == s.includes \subseteq { x.id : x \in svcs }

\* The result of addService:, the state being looked at first.
AddServiceError(st, svcs, s) ==
    IF ~CommandsAllowed(st) THEN NotReadyError
    ELSE IF ~IncludesPublished(svcs, s) THEN DependencyError
    ELSE NoError

\* The registry is keyed by identifier.
WithoutId(svcs, i) == { x \in svcs : x.id # i }

\* A faulty variant: the delegate hears of the services that were published
\* only.
ServiceAddedEventsOnSuccess(s, err) ==
    IF err = NoError THEN << [event |-> "didAddService", service |-> s, error |-> err] >>
    ELSE << >>

\* peripheralManager:didAddService:error: "returns the result of an
\* addService: call.  If the service could not be published to the local
\* database, the cause will be detailed in the error parameter."
ServiceAddedEvents(s, err) ==
    << [event |-> "didAddService", service |-> s, error |-> err] >>

\* - (void)addService:, with peripheralManager:didAddService:error:
AddService(s) ==
    LET err == AddServiceError(state, services, s)
    IN  /\ services' = IF err = NoError THEN WithoutId(services, s.id) \cup {s}
                       ELSE services
        /\ ret' = [op |-> "addService", svc |-> s, err |-> err,
                   events |-> ServiceAddedEvents(s, err)]
        /\ inOrder' = (inOrder /\ s.includes \subseteq { x.id : x \in hist })
        /\ addsOn' = (addsOn /\ state = CBPeripheralManagerStatePoweredOn)
        /\ hist' = IF inOrder' /\ addsOn'
                   THEN { x \in hist : x.id # s.id } \cup {s} ELSE {}
        /\ UNCHANGED << contextVars, requestVars, state, everOn, advVars, centrals, flowVars >>

\* A faulty variant: a service is removed whoever includes it.
IncludedByOtherIgnored(svcs, i) == FALSE

\* A faulty variant: two services that include each other are not held to
\* the order.
IncludedByOtherOneWay(svcs, i) ==
    \E x \in svcs : /\ x.id # i /\ i \in x.includes
                    /\ ~\E y \in svcs : y.id = i /\ x.id \in y.includes

\* A faulty variant: the inclusion is looked at the wrong way round.
IncludedByOtherReversed(svcs, i) == \E x \in svcs : x.id = i /\ x.includes # {}

\* removeService: "If the service is included by other service(s), they
\* must be removed first."
IncludedByOther(svcs, i) == \E x \in svcs : x.id # i /\ i \in x.includes

\* The result of removeService:.
RemoveServiceError(svcs, i) ==
    IF IncludedByOther(svcs, i) THEN DependencyError ELSE NoError

\* - (void)removeService:
RemoveService(i) ==
    LET err == RemoveServiceError(services, i)
    IN  /\ services' = IF err = NoError THEN WithoutId(services, i) ELSE services
        /\ ret' = [op |-> "removeService", id |-> i, err |-> err]
        /\ inOrder' = (inOrder /\ ~\E x \in hist : x.id # i /\ i \in x.includes)
        /\ hist' = IF inOrder' /\ addsOn THEN { x \in hist : x.id # i } ELSE {}
        /\ UNCHANGED << contextVars, requestVars, state, everOn, advVars, centrals, flowVars, addsOn >>

\* - (void)removeAllServices
RemoveAllServices ==
    /\ services' = {}
    /\ ret' = [op |-> "removeAllServices"]
    /\ hist' = {}
    /\ inOrder' = TRUE
    /\ addsOn' = TRUE
    /\ UNCHANGED << contextVars, requestVars, state, everOn, advVars, centrals, flowVars >>

\* ------------------------------------------------------------ advertising
\* startAdvertising: is refused outside PoweredOn; the refusal is reported
\* by peripheralManagerDidStartAdvertising:error:, like every result.
StartAdvertisingError(st) ==
    IF ~CommandsAllowed(st) THEN NotReadyError ELSE NoError

\* A faulty variant: a refused request is dropped, and no result is reported
\* for it.
RequestedAdvDroppedWhenRefused(pending, req) ==
    IF req.err # NoError THEN pending ELSE << req >>

\* A faulty variant: a request waits behind the outstanding one.
RequestedAdvQueued(pending, req) == Append(pending, req)

\* The latest request replaces an outstanding one: requests are not queued.
RequestedAdv(pending, req) == << req >>

\* - (void)startAdvertising:
StartAdvertising(p) ==
    /\ pendingAdv' = RequestedAdv(pendingAdv,
                                  [payload |-> p, err |-> StartAdvertisingError(state)])
    /\ ret' = [op |-> "startAdvertising", payload |-> p]
    /\ haltedSince' = (haltedSince /\ state # CBPeripheralManagerStatePoweredOn)
    /\ UNCHANGED << contextVars, requestVars, state, everOn, advertising, advData, registryVars,
                    centrals, flowVars >>

\* A faulty variant: stopAdvertising cancels the outstanding request.
RequestedAdvAfterStopCancelled(pending) == NoAdv

\* stopAdvertising stops the advertisement; a request whose result is
\* outstanding is not its concern.
RequestedAdvAfterStop(pending) == pending

\* - (void)stopAdvertising
StopAdvertising ==
    /\ advertising' = FALSE
    /\ advData' = NoPayload
    /\ pendingAdv' = RequestedAdvAfterStop(pendingAdv)
    /\ ret' = [op |-> "stopAdvertising", wasAdvertising |-> advertising]
    /\ haltedSince' = (haltedSince \/ pendingAdv # NoAdv)
    /\ UNCHANGED << contextVars, requestVars, state, everOn, registryVars, centrals, flowVars >>

\* The error peripheralManagerDidStartAdvertising:error: carries: that of
\* the request, that of a manager no longer PoweredOn, or the hardware's.
AdvertisingError(req, st, hw) ==
    IF req.err # NoError THEN req.err
    ELSE IF ~CommandsAllowed(st) THEN NotReadyError
    ELSE hw

\* The result of the outstanding request arrives;
\* peripheralManagerDidStartAdvertising:error:
DidStartAdvertising(hw) ==
    /\ pendingAdv # NoAdv
    /\ LET err == AdvertisingError(pendingAdv[1], state, hw)
       IN  /\ advertising' = (advertising \/ err = NoError)
           /\ advData' = IF err = NoError THEN << pendingAdv[1].payload >> ELSE advData
           /\ ret' = [op |-> "didStartAdvertising", err |-> err]
    /\ pendingAdv' = Tail(pendingAdv)
    /\ UNCHANGED << contextVars, requestVars, state, everOn, haltedSince, registryVars,
                    centrals, flowVars >>

\* ------------------------------------------------------- requests of centrals
\* A delivered request as the manager keeps it: a read request or a batch of
\* writes (named by its first write), and the number of responses sent.
ReadRequest(ch) ==
    [kind |-> "read", char |-> ch, writes |-> << >>, responses |-> 0]

WriteRequests(batch) ==
    [kind |-> "write", char |-> batch[1].char, writes |-> batch, responses |-> 0]

\* The delivered requests that have not been answered.
Outstanding == { r \in 1..Len(requests) : requests[r].responses = 0 }

\* peripheralManager:didReceiveReadRequest: (requests come from connected
\* centrals, and centrals are connected only while the state is PoweredOn;
\* the attribute protocol is sequential: the transport delivers the next
\* request after the response to the previous one).
DidReceiveReadRequest(ch) ==
    /\ state = CBPeripheralManagerStatePoweredOn
    /\ Len(requests) < MaxRequests
    /\ Outstanding = {}
    /\ requests' = Append(requests, ReadRequest(ch))
    /\ ret' = [op |-> "didReceiveReadRequest", id |-> Len(requests) + 1]
    /\ UNCHANGED << contextVars, values, state, everOn, advVars, registryVars, centrals, flowVars >>

\* peripheralManager:didReceiveWriteRequests:
DidReceiveWriteRequests(batch) ==
    /\ state = CBPeripheralManagerStatePoweredOn
    /\ Len(requests) < MaxRequests
    /\ Outstanding = {}
    /\ requests' = Append(requests, WriteRequests(batch))
    /\ ret' = [op |-> "didReceiveWriteRequests", id |-> Len(requests) + 1]
    /\ UNCHANGED << contextVars, values, state, everOn, advVars, registryVars, centrals, flowVars >>

\* A faulty variant: a request is answered as often as respondToRequest is
\* called for it.
AwaitsResponseAlways(req) == TRUE

\* "For every invocation of this method, respondToRequest:withResult: should
\* be called exactly once": a request awaits its one response.
AwaitsResponse(req) == req.responses = 0

\* A write a characteristic does not take: its value is too long.
InvalidWrite(w) == Len(w.value) > MaxValueLen

\* The result a request is answered with: that given to respondToRequest,
\* but the failure of the batch when one of its writes is invalid.
RequestResult(req, result) ==
    IF \E i \in 1..Len(req.writes) : InvalidWrite(req.writes[i])
    THEN CBATTErrorInvalidAttributeValueLength
    ELSE result

\* The values after the writes have been executed in their order.
RECURSIVE ExecuteWrites(_, _)
ExecuteWrites(vals, writes) ==
    IF writes = << >> THEN vals
    ELSE ExecuteWrites([vals EXCEPT ![Head(writes).char] = Head(writes).value],
                       Tail(writes))

\* The writes of a batch that precede its first invalid write.
RECURSIVE ValidPrefix(_)
ValidPrefix(writes) ==
    IF writes = << >> \/ InvalidWrite(Head(writes)) THEN << >>
    ELSE << Head(writes) >> \o ValidPrefix(Tail(writes))

\* A faulty variant: the writes are executed one by one until one fails.
ValuesAfterResponseUntilInvalid(vals, req, res) ==
    IF res = CBATTErrorSuccess THEN ExecuteWrites(vals, req.writes)
    ELSE ExecuteWrites(vals, ValidPrefix(req.writes))

\* "If requests contains multiple requests, they must be treated as an
\* atomic unit ... none of the requests should be executed": the writes are
\* executed when the batch is answered with success, and only then.
ValuesAfterResponse(vals, req, res) ==
    IF res = CBATTErrorSuccess THEN ExecuteWrites(vals, req.writes) ELSE vals

\* - (void)respondToRequest:withResult:, for the r-th delivered request
RespondToRequest(r, result) ==
    /\ r \in 1..Len(requests)
    /\ LET req == requests[r]
           ok == AwaitsResponse(req)
           res == RequestResult(req, result)
       IN  /\ requests' = IF ok
                           THEN [requests EXCEPT ![r] =
                                   [@ EXCEPT !.writes = << >>,
                                             !.responses = @ + 1]]
                           ELSE requests
           /\ values' = IF ok THEN ValuesAfterResponse(values, req, res) ELSE values
           /\ ret' = [op |-> "respondToRequest", id |-> r,
                      err |-> IF ok THEN NoError ELSE ProtocolViolationError,
                      sent |-> IF ok THEN res ELSE "nothing"]
    /\ UNCHANGED << contextVars, state, everOn, advVars, registryVars, centrals, flowVars >>

\* ------------------------------------------------------ the execution context
\* The events of the delegate protocol.
DelegateEvents ==
    { "didUpdateState", "didStartAdvertising", "didReceiveReadRequest",
      "isReadyToUpdateSubscribers" }

\* The methods the application calls.
Methods == { "startAdvertising", "updateValue", "respondToRequest" }

sessionVars ==
    << state, everOn, advVars, registryVars, centrals, flowVars, requestVars >>

\* initWithDelegate:queue: "The events of the peripheral role will be
\* dispatched on the provided queue": the dispatcher gives an event to the
\* queue.
Dispatch(e) ==
    /\ Len(dispatched) < MaxEvents
    /\ dispatched' = Append(dispatched, e)
    /\ ret' = [op |-> "dispatch"]
    /\ UNCHANGED << executing, sessionVars >>

\* A faulty variant: the application calls a method while a callback runs
\* (only the callbacks wait for one another).
ContextFreeOfCallbacks(ex, kind) ==
    kind = "call" \/ ex = << >>

\* The session is used from one control flow: a callback or a method call
\* starts when nothing else is being executed.
ContextFree(ex, kind) == ex = << >>

\* The queue starts the callback of its first event.
BeginCallback ==
    /\ dispatched # << >>
    /\ ContextFree(executing, "callback")
    /\ executing' = Append(executing, [kind |-> "callback", name |-> Head(dispatched)])
    /\ dispatched' = Tail(dispatched)
    /\ ret' = [op |-> "beginCallback"]
    /\ UNCHANGED sessionVars

\* The application starts a method call.
BeginCall(m) ==
    /\ ContextFree(executing, "call")
    /\ executing' = Append(executing, [kind |-> "call", name |-> m])
    /\ ret' = [op |-> "beginCall"]
    /\ UNCHANGED << dispatched, sessionVars >>

\* The i-th of the callbacks and calls being executed returns.
Return(i) ==
    /\ i \in 1..Len(executing)
    /\ executing' = [j \in 1..(Len(executing) - 1) |->
                       IF j < i THEN executing[j] ELSE executing[j + 1]]
    /\ ret' = [op |-> "return", kind |-> executing[i].kind]
    /\ UNCHANGED << dispatched, sessionVars >>

\* ------------------------------------------------------------ specifications
\* Power, subscriptions and the flow of notifications.
NextFlow ==
    \/ \E s \in PowerStates : PowerChange(s)
    \/ \E c \in Centrals, ch \in Chars : DidSubscribe(c, ch)
    \/ \E c \in Centrals, ch \in Chars : DidUnsubscribe(c, ch)
    \/ \E ch \in Chars : UpdateValue(Bytes(0), ch, Nil)
    \/ \E n \in 0..QueueCapacity : Drain(n)
    \/ HandleReady

SpecFlow == Init /\ [][NextFlow]_vars

\* Power, subscriptions and advertising.
NextPower ==
    \/ \E s \in PowerStates : PowerChange(s)
    \/ \E c \in Centrals, ch \in Chars : DidSubscribe(c, ch)
    \/ \E c \in Centrals, ch \in Chars : DidUnsubscribe(c, ch)
    \/ \E p \in Payloads : StartAdvertising(p)
    \/ StopAdvertising
    \/ \E hw \in {NoError, HardwareError} : DidStartAdvertising(hw)

SpecPower == Init /\ [][NextPower]_vars

\* The same, with the results of the advertising requests delivered fairly
\* (the dispatch queue runs every block it is given).
FairPower ==
    SpecPower /\ WF_vars(\E hw \in {NoError, HardwareError} : DidStartAdvertising(hw))

\* Power, the service registry and advertising.
NextSession ==
    \/ \E s \in PowerStates : PowerChange(s)
    \/ \E s \in ServiceValues : AddService(s)
    \/ \E i \in ServiceIds : RemoveService(i)
    \/ RemoveAllServices
    \/ \E p \in Payloads : StartAdvertising(p)
    \/ StopAdvertising
    \/ \E hw \in {NoError, HardwareError} : DidStartAdvertising(hw)

SpecSession == Init /\ [][NextSession]_vars

\* Subscriptions and the notifications for the centrals of a list.
NextNotify ==
    \/ PowerChange(CBPeripheralManagerStatePoweredOn)
    \/ \E c \in Centrals, ch \in Chars : DidSubscribe(c, ch)
    \/ \E c \in Centrals, ch \in Chars : DidUnsubscribe(c, ch)
    \/ \E ch \in Chars, cs \in CentralLists : UpdateValue(Bytes(0), ch, cs)

SpecNotify == Init /\ [][NextNotify]_vars

\* Subscriptions and the values of the notifications.
NextValues ==
    \/ PowerChange(CBPeripheralManagerStatePoweredOn)
    \/ \E c \in Centrals, ch \in Chars : DidSubscribe(c, ch)
    \/ \E v \in UpdateValues, ch \in Chars : UpdateValue(v, ch, Nil)
    \/ \E n \in 0..QueueCapacity : Drain(n)

SpecValues == Init /\ [][NextValues]_vars

\* The dispatcher of the events and the calling application.
NextDispatch ==
    \/ \E e \in DelegateEvents : Dispatch(e)
    \/ BeginCallback
    \/ \E m \in Methods : BeginCall(m)
    \/ \E i \in DOMAIN executing : Return(i)

SpecDispatch == Init /\ [][NextDispatch]_vars

\* Power and the requests of the centrals.
NextRequests ==
    \/ \E s \in { CBPeripheralManagerStatePoweredOn,
                   CBPeripheralManagerStatePoweredOff } : PowerChange(s)
    \/ \E ch \in Chars : DidReceiveReadRequest(ch)
    \/ \E batch \in Batches : DidReceiveWriteRequests(batch)
    \/ \E r \in 1..MaxRequests,
          result \in {CBATTErrorSuccess, CBATTErrorUnlikelyError} :
            RespondToRequest(r, result)

SpecRequests == Init /\ [][NextRequests]_vars

\* Power, the service registry and the subscriptions: a central subscribes
\* to a characteristic it sees, one of a published service.
NextSubscriptions ==
    \/ \E s \in PowerStates : PowerChange(s)
    \/ \E s \in ServiceValues : AddService(s)
    \/ \E i \in ServiceIds : RemoveService(i)
    \/ RemoveAllServices
    \/ \E c \in Centrals, ch \in PublishedChars : DidSubscribe(c, ch)
    \/ \E c \in Centrals, ch \in Chars : DidUnsubscribe(c, ch)
    \/ \E ch \in Chars : UpdateValue(Bytes(0), ch, Nil)

SpecSubscriptions == Init /\ [][NextSubscriptions]_vars

\* The whole session.
Next ==
    \/ NextFlow \/ NextPower \/ NextSession \/ NextNotify \/ NextValues
    \/ NextRequests \/ NextDispatch \/ NextSubscriptions

Spec == Init /\ [][Next]_vars

\* The flow of notifications with the ready signals handled fairly (the
\* dispatch queue runs every block it is given) and the transport draining
\* fairly.
FairFlow ==
    /\ SpecFlow
    /\ WF_vars(HandleReady)
    /\ WF_vars(\E n \in 1..QueueCapacity : Drain(n))

\* ------------------------------------------------------------------ claims
\* C1: updateValue is all-or-nothing.  With k targeted subscribers, if k
\* exceeds the remaining capacity of the queue, nothing is enqueued, the
\* queue is unchanged and the result is NO; otherwise exactly k
\* notifications are appended and the result is YES.
UpdateValueAllOrNothing ==
    [][ ret'.op = "updateValue" =>
          IF ret'.k > QueueCapacity - Len(queue)
          THEN queue' = queue /\ ret'.ok = FALSE
          ELSE /\ Len(queue') = Len(queue) + ret'.k
               /\ SubSeq(queue', 1, Len(queue)) = queue
               /\ ret'.ok = TRUE ]_vars

\* An updateValue for more subscribers than the queue holds was refused on
\* an empty queue, which stayed empty.
UpdateValueRefused ==
    ret.op = "updateValue" /\ ~ret.ok /\ ret.k > QueueCapacity /\ queue = << >>

ReadyAfterDrain == (failedSince /\ freedSince) ~> ~failedSince

\* An updateValue has returned NO, a drain has freed space since, and the
\* ready signal of that drain is still to be handled.
ReadyOwed == failedSince /\ freedSince /\ readySignals > 0

ReadyOnlyAfterFailedUpdate ==
    [][ (ret'.op = "ready" /\ ret'.fired) => failedSince ]_vars

\* The readyToUpdate callback has just been made.
ReadyFired == ret.op = "ready" /\ ret.fired /\ ~failedSince /\ ~waitingForReady

\* C5: in every state other than PoweredOn the manager is not advertising
\* and no central is subscribed; so every entry into PoweredOn starts not
\* advertising and without subscriptions.
NothingLiveBelowPoweredOn ==
    /\ [](state # CBPeripheralManagerStatePoweredOn =>
            ~advertising /\ \A c \in Centrals : centrals[c] = {})
    /\ [][ (state # CBPeripheralManagerStatePoweredOn
              /\ state' = CBPeripheralManagerStatePoweredOn) =>
            ~advertising' /\ \A c \in Centrals : centrals'[c] = {} ]_vars

\* PoweredOn was left while advertising, with a central subscribed.
LeftPoweredOnLive ==
    /\ state # CBPeripheralManagerStatePoweredOn
    /\ ret.op = "didUpdateState" /\ ret.wasAdvertising /\ ret.hadCentrals

\* C6: a transition from PoweredOn to PoweredOff leaves the published
\* services unchanged; a transition from PoweredOn to Unsupported or to
\* Unauthorized clears them.
PoweredOffKeepsServices ==
    [][ /\ (state = CBPeripheralManagerStatePoweredOn
              /\ state' = CBPeripheralManagerStatePoweredOff) =>
            services' = services
        /\ (state = CBPeripheralManagerStatePoweredOn
              /\ state' \in { CBPeripheralManagerStateUnsupported,
                              CBPeripheralManagerStateUnauthorized }) =>
            services' = {} ]_vars

\* PoweredOff was entered with services published, and they still are.
PoweredOffWithServices ==
    /\ state = CBPeripheralManagerStatePoweredOff
    /\ ret.op = "didUpdateState" /\ ret.hadServices /\ services # {}

\* C7: in every state below PoweredOff the manager is not advertising and
\* the local database is empty; a service enters the database only by an
\* addService: made in PoweredOn.
DatabaseClearedBelowPoweredOff ==
    /\ [](state < CBPeripheralManagerStatePoweredOff =>
            services = {} /\ ~advertising)
    /\ [][ ~(services' \subseteq services) =>
            (ret'.op = "addService" /\ state = CBPeripheralManagerStatePoweredOn) ]_vars

\* A state below PoweredOff was entered with services published.
MovedBelowPoweredOff ==
    /\ state < CBPeripheralManagerStatePoweredOff
    /\ ret.op = "didUpdateState" /\ ret.hadServices

\* C8, as stated: addService: of a service one of whose included services is
\* not published fails with DependencyError and leaves the registry
\* unchanged; with every included service published, it succeeds and the
\* service is published.
AddServiceDependencyAsStated ==
    [][ ret'.op = "addService" =>
          IF ~(ret'.svc.includes \subseteq PublishedIds)
          THEN ret'.err = DependencyError /\ services' = services
          ELSE state = CBPeripheralManagerStatePoweredOn =>
                 ret'.err = NoError /\ ret'.svc \in services' ]_vars

\* C8, amended: in PoweredOn, addService: of a service one of whose included
\* services is not published fails with DependencyError, and with every
\* included service published it succeeds and the service is published;
\* outside PoweredOn it fails with NotReadyError whatever it includes.  A
\* failed call leaves the registry unchanged.
AddServiceDependency ==
    [][ ret'.op = "addService" =>
          IF state # CBPeripheralManagerStatePoweredOn
          THEN ret'.err = NotReadyError /\ services' = services
          ELSE IF ~(ret'.svc.includes \subseteq PublishedIds)
          THEN ret'.err = DependencyError /\ services' = services
          ELSE ret'.err = NoError /\ ret'.svc \in services' ]_vars

\* A service was published after the service it includes.
IncluderPublished ==
    /\ ret.op = "addService" /\ ret.err = NoError
    /\ ret.svc.includes # {} /\ ret.svc \in services
    /\ ret.svc.includes \subseteq PublishedIds

\* C9: addService: and startAdvertising: made in a state other than
\* PoweredOn fail with NotReadyError (startAdvertising: by the error of its
\* result callback) and change neither the registry nor the advertising
\* flag; until the state has been PoweredOn, every such call fails, nothing
\* is published and nothing is advertised.
NotReadyOutsidePoweredOn ==
    /\ [][ /\ (ret'.op = "addService"
                 /\ state # CBPeripheralManagerStatePoweredOn) =>
               /\ ret'.err = NotReadyError
               /\ services' = services /\ advertising' = advertising
           /\ (ret'.op = "startAdvertising"
                 /\ state # CBPeripheralManagerStatePoweredOn) =>
               /\ pendingAdv' # NoAdv /\ pendingAdv'[1].err = NotReadyError
               /\ services' = services /\ advertising' = advertising
           /\ (ret'.op = "didStartAdvertising" /\ pendingAdv # NoAdv
                 /\ pendingAdv[1].err = NotReadyError) =>
               /\ ret'.err = NotReadyError
               /\ services' = services /\ advertising' = advertising ]_vars
    /\ [](~everOn =>
            /\ services = {} /\ ~advertising
            /\ ret.op \in {"addService", "didStartAdvertising"} =>
                 ret.err = NotReadyError)

\* An addService: made in PoweredOff, with services published, was refused.
AddServiceRefusedInPoweredOff ==
    /\ state = CBPeripheralManagerStatePoweredOff
    /\ ret.op = "addService" /\ ret.err = NotReadyError /\ services # {}

\* C10, as stated: while every addService: and removeService: call respects
\* the include order, every call succeeds and the registry is the set of
\* services added and not removed since (a set the history keeps while
\* every addService: was made in PoweredOn).
InOrderCallsAsStated ==
    inOrder =>
      /\ ret.op \in {"addService", "removeService"} => ret.err = NoError
      /\ addsOn => services = hist

\* C10, amended: while every addService: and removeService: call respects the
\* include order and every addService: call is made in PoweredOn, every call
\* succeeds and the registry is the set of services added and not removed
\* since the registry was last cleared.
InOrderCalls ==
    (inOrder /\ addsOn) =>
      /\ ret.op \in {"addService", "removeService"} => ret.err = NoError
      /\ services = hist

\* An includer was removed in order, and the service it included remains.
IncluderRemoved ==
    /\ inOrder /\ addsOn
    /\ ret.op = "removeService" /\ ret.err = NoError
    /\ services # {} /\ services = hist
    /\ \A x \in services : x.id # ret.id

\* C11: removeService: of a service that another published service includes
\* fails with DependencyError and leaves the registry exactly as it was;
\* otherwise it succeeds, the service is absent from the registry and every
\* other service is still there.
RemoveServiceAtomic ==
    [][ ret'.op = "removeService" =>
          IF \E x \in services : x.id # ret'.id /\ ret'.id \in x.includes
          THEN ret'.err = DependencyError /\ services' = services
          ELSE /\ ret'.err = NoError
               /\ \A x \in services' : x.id # ret'.id
               /\ services' = { x \in services : x.id # ret'.id } ]_vars

\* The removal of a published service that a published service includes was
\* refused.
RemoveServiceRefused ==
    /\ ret.op = "removeService" /\ ret.err = DependencyError
    /\ ret.id \in PublishedIds
    /\ \E x \in services : x.id # ret.id /\ ret.id \in x.includes

WriteBatchAtomic ==
    [][ /\ ( /\ ret'.op = "respondToRequest"
              /\ requests[ret'.id].kind = "write"
              /\ requests[ret'.id].responses = 0 ) =>
            LET writes == requests[ret'.id].writes
            IN  IF \E i \in 1..Len(writes) : Len(writes[i].value) > MaxValueLen
                THEN /\ ret'.sent = CBATTErrorInvalidAttributeValueLength
                     /\ requests'[ret'.id].responses = 1
                     /\ values' = values
                ELSE IF ret'.sent = CBATTErrorSuccess
                THEN \A ch \in Chars :
                       LET at == { i \in 1..Len(writes) : writes[i].char = ch }
                       IN  values'[ch] =
                             IF at = {} THEN values[ch]
                             ELSE writes[CHOOSE i \in at : \A j \in at : j <= i].value
                ELSE values' = values
        /\ values' # values =>
            /\ ret'.op = "respondToRequest" /\ ret'.sent = CBATTErrorSuccess
            /\ requests[ret'.id].kind = "write"
            /\ \A i \in 1..Len(requests[ret'.id].writes) :
                  Len(requests[ret'.id].writes[i].value) <= MaxValueLen ]_vars

\* After a valid batch was executed, a batch with an invalid write was
\* answered with the failure.
InvalidBatchRefused ==
    /\ ret.op = "respondToRequest"
    /\ ret.sent = CBATTErrorInvalidAttributeValueLength
    /\ ret.id > 1 /\ requests[ret.id].kind = "write"
    /\ \E ch \in Chars : values[ch] # << >>

\* C14: the outcome of startAdvertising: is reported asynchronously.  The
\* call reports nothing itself: it leaves the advertising flag as it was and
\* its request outstanding; and every call is eventually followed by the
\* advertisingStarted callback, which carries no error exactly when the
\* advertisement has been started, and the cause otherwise.
StartAdvertisingReportedLater ==
    /\ [][ /\ ret'.op = "startAdvertising" =>
               /\ advertising' = advertising /\ advData' = advData
               /\ pendingAdv' # NoAdv
           /\ ret'.op = "didStartAdvertising" =>
               /\ pendingAdv # NoAdv
               /\ ret'.err \in {NoError, NotReadyError, HardwareError}
               /\ ret'.err = NoError =>
                     advertising' /\ advData' = << pendingAdv[1].payload >>
               /\ ret'.err # NoError =>
                     advertising' = advertising /\ advData' = advData ]_vars
    /\ (ret.op = "startAdvertising") ~> (ret.op = "didStartAdvertising")

\* The result of a startAdvertising: made in PoweredOff has been reported:
\* NotReadyError.
RefusedAdvertisingReported ==
    /\ ret.op = "didStartAdvertising" /\ ret.err = NotReadyError
    /\ state = CBPeripheralManagerStatePoweredOff /\ pendingAdv = NoAdv

\* C15: startAdvertising: while advertising restarts the advertisement with
\* the new payload, the last writer winning.  A call leaves exactly its own
\* request outstanding, whatever was outstanding before, so that no earlier
\* request is kept to be applied later; only a call makes a request
\* outstanding; and when the start is reported as done, the payload that is
\* advertised is that of the most recent call.
LastAdvertisingRequestWins ==
    /\ [][ /\ ret'.op = "startAdvertising" =>
               Len(pendingAdv') = 1 /\ pendingAdv'[1].payload = ret'.payload
           /\ (ret'.op = "didStartAdvertising" /\ ret'.err = NoError) =>
               /\ advertising' /\ advData' = << pendingAdv[1].payload >>
               /\ pendingAdv' = NoAdv
           /\ ret'.op # "startAdvertising" =>
               pendingAdv' = pendingAdv \/ pendingAdv' = NoAdv
           /\ ret'.op # "didStartAdvertising" =>
               advData' = advData \/ advData' = NoPayload ]_vars
    /\ [](Len(pendingAdv) <= 1 /\ (advertising <=> advData # NoPayload))

\* While one payload was advertised in PoweredOn, a call with another
\* payload is outstanding.
RestartRequested ==
    /\ state = CBPeripheralManagerStatePoweredOn
    /\ ret.op = "startAdvertising" /\ advertising
    /\ advData # << ret.payload >> /\ pendingAdv[1].err = NoError

\* C16: stopAdvertising is idempotent.  It leaves the manager not
\* advertising and changes nothing else; when the manager is not advertising
\* it changes nothing at all, also with a request outstanding, and reports
\* no error; so a second call in a row leaves what the first one left.
StopAdvertisingIdempotent ==
    [][ ret'.op = "stopAdvertising" =>
          /\ ~advertising' /\ advData' = NoPayload
          /\ ret' = [op |-> "stopAdvertising", wasAdvertising |-> advertising]
          /\ pendingAdv' = pendingAdv /\ state' = state
          /\ services' = services /\ centrals' = centrals
          /\ queue' = queue /\ readySignals' = readySignals
          /\ waitingForReady' = waitingForReady
          /\ requests' = requests /\ values' = values
          /\ ~advertising => (advertising' = advertising /\ advData' = advData) ]_vars

\* stopAdvertising was called while not advertising, with a request
\* outstanding, and with services published.
StoppedWhileNotAdvertising ==
    /\ ret.op = "stopAdvertising" /\ ~ret.wasAdvertising
    /\ pendingAdv # NoAdv /\ services # {}

\* C17: updateValue never enqueues a notification for a central that is
\* not subscribed to the characteristic.  The centrals of the list that are
\* not subscribed are left out and the call is not refused because of them:
\* its targets are the subscribed centrals of the list, or all subscribed
\* centrals for nil; it is accepted exactly when those fit in the queue, and
\* it then appends one notification for each of them and for no one else.
SubscribersFiltered ==
    [][ ret'.op = "updateValue" =>
          LET subs == { c \in Centrals : ret'.char \in centrals[c] }
              T == IF ret'.centrals.nil THEN subs
                   ELSE ret'.centrals.list \cap subs
              new == SubSeq(queue', Len(queue) + 1, Len(queue'))
          IN  /\ ret'.k = Cardinality(T)
              /\ ret'.ok = (Cardinality(T) <= QueueCapacity - Len(queue))
              /\ ret'.ok =>
                    /\ SubSeq(queue', 1, Len(queue)) = queue
                    /\ Len(new) = Cardinality(T)
                    /\ { new[i].central : i \in 1..Len(new) } = T
                    /\ \A i \in 1..Len(new) : new[i].char = ret'.char
              /\ ~ret'.ok => queue' = queue ]_vars

\* An updateValue for a list with a subscribed and an unsubscribed central
\* was accepted, and the subscribed one is notified.
UnsubscribedLeftOut ==
    /\ ret.op = "updateValue" /\ ret.ok /\ ~ret.centrals.nil /\ ret.k >= 1
    /\ \E c \in ret.centrals.list : ret.char \notin centrals[c]
    /\ queue # << >> /\ queue[Len(queue)].central \in ret.centrals.list
    /\ ret.char \in centrals[queue[Len(queue)].central]

\* C19: updateValue with a value longer than the maximum update length does
\* not fail because of the length: whether the call is accepted depends on
\* the room in the queue only, and the notifications it appends carry the
\* first maximum-length bytes of the value (the whole value when it is not
\* longer); so every queued notification is at most that long.
ValueTruncated ==
    /\ [](\A i \in 1..Len(queue) : Len(queue[i].value) <= MaxUpdateLen)
    /\ [][ ret'.op = "updateValue" =>
             /\ ret'.ok = (ret'.k <= QueueCapacity - Len(queue))
             /\ ret'.ok =>
                   /\ Len(queue') = Len(queue) + ret'.k
                   /\ \A i \in (Len(queue) + 1)..Len(queue') :
                         LET n == IF Len(ret'.value) > MaxUpdateLen
                                  THEN MaxUpdateLen ELSE Len(ret'.value)
                         IN  queue'[i].value = [j \in 1..n |-> ret'.value[j]] ]_vars

\* An updateValue with a value longer than the maximum was accepted, and the
\* notification carries its first bytes.
LongValueTruncated ==
    /\ ret.op = "updateValue" /\ ret.ok /\ ret.k >= 1
    /\ Len(ret.value) > MaxUpdateLen
    /\ queue # << >>
    /\ queue[Len(queue)].value = SubSeq(ret.value, 1, MaxUpdateLen)

\* C18: every addService: call raises exactly one serviceAdded event, when
\* it succeeds and when it fails.  The event names the service of the call
\* and carries the result of the call: no error when the call has published
\* the service, and the cause, DependencyError or NotReadyError, when the
\* call has published nothing.
OneServiceAddedPerCall ==
    [][ ret'.op = "addService" =>
          /\ Len(ret'.events) = 1
          /\ ret'.events[1].event = "didAddService"
          /\ ret'.events[1].service = ret'.svc
          /\ ret'.events[1].error = ret'.err
          /\ ret'.events[1].error = NoError <=>
                ( /\ state = CBPeripheralManagerStatePoweredOn
                  /\ ret'.svc.includes \subseteq PublishedIds )
          /\ ret'.events[1].error = NoError => ret'.svc \in services'
          /\ ret'.events[1].error # NoError =>
                /\ ret'.events[1].error \in {DependencyError, NotReadyError}
                /\ services' = services ]_vars

\* In PoweredOn, an addService: of a service whose included service is not
\* published has raised its event, with DependencyError.
ServiceAddedWithError ==
    /\ state = CBPeripheralManagerStatePoweredOn
    /\ ret.op = "addService" /\ Len(ret.events) = 1
    /\ ret.events[1].error = DependencyError /\ ret.svc \notin services

StateChangeEventRaised ==
    /\ state = CBPeripheralManagerStateUnknown
    /\ [][ /\ state' # state =>
               /\ ret'.op = "didUpdateState"
               /\ Len(ret'.events) = 1
               /\ ret'.events[1].event = "didUpdateState"
               /\ ret'.events[1].state = state'
           /\ ret'.op = "didUpdateState" => state' # state ]_vars

\* After the state had been PoweredOn, it has moved to Resetting while the
\* manager was advertising, and the event of that change has been raised.
ResettingReported ==
    /\ state = CBPeripheralManagerStateResetting /\ everOn
    /\ ret.op = "didUpdateState" /\ ret.wasAdvertising /\ Len(ret.events) = 1
    /\ ret.events[1].state = CBPeripheralManagerStateResetting

\* C22: the registry is closed under inclusion.  In every reachable state,
\* every service that a published service includes is itself published,
\* whatever addService:, removeService:, removeAllServices and changes of
\* the state have been made.
RegistryClosedUnderInclusion ==
    \A s \in services : s.includes \subseteq PublishedIds

\* A published service that another one includes has been added again, now
\* including that other one: the two include each other.
MutualInclusionPublished ==
    /\ ret.op = "addService" /\ ret.err = NoError /\ ret.svc \in services
    /\ \E x \in services :
          x.id # ret.svc.id /\ ret.svc.id \in x.includes /\ x.id \in ret.svc.includes

\* C23: the transmit queue never holds more notifications than its fixed
\* capacity, in any reachable state, whatever updateValue calls, drains,
\* subscriptions and changes of the state have been made.
QueueWithinCapacity == Len(queue) <= QueueCapacity

\* With the queue full, an updateValue that an empty queue would have taken
\* was refused, and the queue is still full.
RefusedOnFullQueue ==
    /\ ret.op = "updateValue" /\ ~ret.ok
    /\ ret.k >= 1 /\ ret.k <= QueueCapacity
    /\ Len(queue) = QueueCapacity

\* C24: a late result of startAdvertising: never turns the advertisement back
\* on.  Once stopAdvertising has been called, or PoweredOn has been left,
\* while the result of a startAdvertising: call was outstanding, the
\* manager is not advertising until startAdvertising: is called again in
\* PoweredOn.
LateResultKeepsAdvertisingOff == haltedSince => ~advertising

\* The part of C24 that holds: a result that arrives while the state is not
\* PoweredOn leaves the manager not advertising.
LateResultOutsidePoweredOn ==
    [][ (ret'.op = "didStartAdvertising" /\ state # CBPeripheralManagerStatePoweredOn) =>
          (ret'.err # NoError /\ ~advertising') ]_vars

\* C25: every subscription refers to a characteristic of a published
\* service.  In every reachable state, after removeService:,
\* removeAllServices or a change of the state that clears the registry as
\* after any other step, no central is subscribed to a characteristic whose
\* service is not published, and an updateValue has had no target for such
\* a characteristic.
SubscriptionsReferToPublished ==
    /\ \A c \in Centrals : centrals[c] \subseteq PublishedChars
    /\ (ret.op = "updateValue" /\ ret.k > 0) => ret.char \in PublishedChars

\* The part of C25 that holds: a change of the state that clears the
\* registry leaves no subscription.
SubscriptionsClearedWithRegistry ==
    [][ (state' # state /\ services # {} /\ services' = {}) =>
          \A c \in Centrals : centrals'[c] = {} ]_vars

====
